---- MODULE Spec2Model ----
\* A model of chart.py: a script whose module body runs top to bottom,
\* one statement after the other.  Each statement is one action; an uncaught
\* exception ends the run (pc = "failed").
\*
\* Numbers are fixed-point tenths: the text "0.1" is the number 1, "5" is 50.
EXTENDS Integers, Sequences, FiniteSets, TLC

VARIABLES
    pc,         \* the statement the interpreter is about to run
    file,       \* the file at data_filepath
    dataframe,  \* the module-level name `dataframe`
    stdout,     \* what print() has written
    figures,    \* number of figures plt.figure() has created
    rcParams,   \* the plt.rcParams entries the script has set
    plotData,   \* the `data=` argument handed to the plotting call
    chart,      \* what the plotting calls have drawn on the axes
    labels,     \* the title and axis labels set on the axes
    shown,      \* number of times plt.show() has displayed the figure
    savedFiles, \* files written by the run
    error,      \* the uncaught exception that ended the run, or "none"
    errorAt,    \* the statement that raised it
    calls       \* how many times each library call has been made

vars == <<pc, file, dataframe, stdout, figures, rcParams, plotData, chart,
          labels, shown, savedFiles, error, errorAt, calls>>

----------------------------------------------------------------------------
\* Bounds of the model

MaxLines == 3

----------------------------------------------------------------------------
\* Program constants

data_filepath == "/Users/ethankelly/IdeaProjects/Equations/data-reg-diff.csv"

FigureDpi == 300

SavefigDpi == 300

CategoryColumn == "probability"

ValueColumn == "difference"

TitleText == "Reduction in numbers of equations needed for ER\ngraphs after using closures"

XLabelText == "Probability"

YLabelText == "Difference in number of equations"

----------------------------------------------------------------------------
\* Text of a CSV field and the number pandas parses it to (in tenths)

NumTexts == {"-0.1", "0", "0.1", "0.2", "1", "2", "3", "4", "5", "7", "100"}

IsNumeric(t) == t \in NumTexts

ToNum(t) ==
    CASE t = "-0.1" -> -1
      [] t = "0"    -> 0
      [] t = "0.1"  -> 1
      [] t = "0.2"  -> 2
      [] t = "1"    -> 10
      [] t = "2"    -> 20
      [] t = "3"    -> 30
      [] t = "4"    -> 40
      [] t = "5"    -> 50
      [] t = "7"    -> 70
      [] t = "100"  -> 1000

NumCell(n) == [num |-> TRUE, n |-> n, s |-> ""]

StrCell(t) == [num |-> FALSE, n |-> 0, s |-> t]

----------------------------------------------------------------------------
\* The input files the model runs the script on

SeqsUpTo(S, n) == UNION {[1..k -> S] : k \in 0..n}

Headers == { <<"probability", "difference">>,
             <<"probability", "result">>,
             <<"difference", "result">> }

ProbTexts == {"-0.1", "0", "0.1", "0.2"}

ValTexts == {"3", "5", "7"}

\* Lines with as many fields as the header, one of them with a non-numeric
\* first field, and one line with a field too many.
GoodLines == {<<p, v>> : p \in ProbTexts, v \in ValTexts} \cup {<<"x", "5">>}

LongLine == <<"0.1", "5", "7">>

DataLines == GoodLines \cup {LongLine}

\* The first data line has the header's field count: pandas takes leading
\* surplus fields of the first data line for an index, which no input here
\* exercises.
Files ==
    { [path |-> data_filepath, exists |-> TRUE, header |-> h, lines |-> ls] :
        h \in Headers,
        ls \in {l \in SeqsUpTo(DataLines, MaxLines) :
                   l # <<>> => Len(l[1]) = 2} }
    \cup { [path |-> data_filepath, exists |-> FALSE, header |-> <<>>,
            lines |-> <<>>] }

NoFrame == [columns |-> <<>>, rows |-> <<>>]

NoChart == [drawn |-> FALSE, kind |-> "none", bars |-> <<>>, boxes |-> <<>>,
            dots |-> 0]

NoLabels == [title |-> "", xlabel |-> "", ylabel |-> ""]

NoCalls == [read_csv |-> 0, plot |-> 0, show |-> 0]

----------------------------------------------------------------------------
\* pd.read_csv(data_filepath, encoding="ISO-8859-1")

\* A column is numeric when every field of it parses as a number; otherwise
\* pandas keeps the whole column as text (dtype object).
ColumnIsNumeric(lines, j) == \A i \in 1..Len(lines) : IsNumeric(lines[i][j])

ParseCell(lines, i, j) ==
    IF ColumnIsNumeric(lines, j)
    THEN NumCell(ToNum(lines[i][j]))
    ELSE StrCell(lines[i][j])

\* the first data line taken for a second header line
ParseRows_skipFirst(header, lines) ==
    [i \in 1..(Len(lines) - 1) |->
        [j \in 1..Len(header) |-> ParseCell(lines, i + 1, j)]]

ParseRows(header, lines) ==
    [i \in 1..Len(lines) |-> [j \in 1..Len(header) |-> ParseCell(lines, i, j)]]

read_csv(f) ==
    IF ~f.exists
    THEN [err |-> "FileNotFoundError", frame |-> NoFrame]
    ELSE IF \E i \in 1..Len(f.lines) : Len(f.lines[i]) > Len(f.header)
    THEN [err |-> "ParserError", frame |-> NoFrame]
    ELSE [err |-> "none",
          frame |-> [columns |-> f.header,
                     rows |-> ParseRows(f.header, f.lines)]]

----------------------------------------------------------------------------
\* Column access, filtering and aggregation

Range(s) == {s[i] : i \in 1..Len(s)}

HasColumn(df, c) == c \in Range(df.columns)

ColumnIndex(df, c) == CHOOSE j \in 1..Len(df.columns) : df.columns[j] = c

DtypeIsNumeric(df, c) ==
    \A i \in 1..Len(df.rows) : df.rows[i][ColumnIndex(df, c)].num

\* a strict comparison in place of >=
KeepRow_strict(probability) == probability > 0

\* the comparison  probability >= 00
KeepRow(probability) == probability >= 0

\* dataframe[dataframe["probability"] >= 00]: a new frame, the rows kept in
\* their order.  dataframe["probability"] raises KeyError for a missing
\* column, and >= between text and 0 raises TypeError.
FilterFrame(df) ==
    IF ~HasColumn(df, CategoryColumn)
    THEN [err |-> "KeyError", frame |-> NoFrame]
    ELSE IF ~DtypeIsNumeric(df, CategoryColumn)
    THEN [err |-> "TypeError", frame |-> NoFrame]
    ELSE LET j == ColumnIndex(df, CategoryColumn)
             Keep(r) == KeepRow(r[j].n)
         IN [err |-> "none",
             frame |-> [columns |-> df.columns,
                        rows |-> SelectSeq(df.rows, Keep)]]

RECURSIVE SumSeq(_)
SumSeq(s) == IF s = <<>> THEN 0 ELSE Head(s) + SumSeq(Tail(s))

\* the y values of the rows of `data` whose x value is g, in row order
GroupValues(data, x, y, g) ==
    LET xj == ColumnIndex(data, x)
        yj == ColumnIndex(data, y)
        InGroup(r) == r[xj].n = g
        rs == SelectSeq(data.rows, InGroup)
    IN [i \in 1..Len(rs) |-> rs[i][yj].n]

\* estimator=sum in place of the mean
Estimator_sum(values) == [num |-> SumSeq(values), den |-> 1]

\* the default estimator of sns.barplot, the mean, as a fraction num/den
Estimator(values) == [num |-> SumSeq(values), den |-> Len(values)]

Categories(data, x) ==
    {data.rows[i][ColumnIndex(data, x)].n : i \in 1..Len(data.rows)}

\* a missing y column replaced by the last column of the data
barplot_fallback(x, y, data) ==
    LET yy == IF HasColumn(data, y) THEN y ELSE data.columns[Len(data.columns)]
    IN IF ~HasColumn(data, x)
       THEN [err |-> "ValueError", chart |-> NoChart]
       ELSE [err |-> "none",
             chart |-> [drawn |-> TRUE, kind |-> "bar",
                        bars |-> [g \in Categories(data, x) |->
                                     [num |-> SumSeq(GroupValues(data, x, yy, g)),
                                      den |-> Len(GroupValues(data, x, yy, g))]],
                        boxes |-> <<>>, dots |-> 0]]

\* sns.barplot(x=..., y=..., data=...): a name that is no column of `data`
\* makes seaborn raise ValueError ("Could not interpret value ...").
barplot(x, y, data) ==
    IF ~HasColumn(data, x) \/ ~HasColumn(data, y)
    THEN [err |-> "ValueError", chart |-> NoChart]
    ELSE [err |-> "none",
          chart |-> [drawn |-> TRUE, kind |-> "bar",
                     bars |-> [g \in Categories(data, x) |->
                                  Estimator(GroupValues(data, x, y, g))],
                     boxes |-> <<>>, dots |-> 0]]

----------------------------------------------------------------------------
\* The statements of the script

Raise(e, at) ==
    /\ pc' = "failed"
    /\ error' = e
    /\ errorAt' = at

Init ==
    /\ pc = "read_csv"
    /\ file \in Files
    /\ dataframe = NoFrame
    /\ stdout = <<>>
    /\ figures = 0
    /\ rcParams = <<>>
    /\ plotData = NoFrame
    /\ chart = NoChart
    /\ labels = NoLabels
    /\ shown = 0
    /\ savedFiles = {}
    /\ error = "none"
    /\ errorAt = "none"
    /\ calls = NoCalls

\* the load wrapped in try/except, going on with an empty table
ReadCsv_caught ==
    /\ pc = "read_csv"
    /\ calls' = [calls EXCEPT !.read_csv = @ + 1]
    /\ LET r == read_csv(file)
       IN /\ dataframe' = r.frame
          /\ pc' = "print"
          /\ error' = r.err
          /\ errorAt' = IF r.err = "none" THEN "none" ELSE "read_csv"
    /\ UNCHANGED <<file, stdout, figures, rcParams, plotData, chart, labels,
                   shown, savedFiles>>

\* line 10
ReadCsv ==
    /\ pc = "read_csv"
    /\ calls' = [calls EXCEPT !.read_csv = @ + 1]
    /\ LET r == read_csv(file)
       IN IF r.err = "none"
          THEN /\ dataframe' = r.frame
               /\ pc' = "print"
               /\ UNCHANGED <<error, errorAt>>
          ELSE /\ Raise(r.err, "read_csv")
               /\ UNCHANGED dataframe
    /\ UNCHANGED <<file, stdout, figures, rcParams, plotData, chart, labels,
                   shown, savedFiles>>

\* line 12
PrintDataframe ==
    /\ pc = "print"
    /\ stdout' = Append(stdout, dataframe)
    /\ pc' = "figure"
    /\ UNCHANGED <<file, dataframe, figures, rcParams, plotData, chart,
                   labels, shown, savedFiles, error, errorAt, calls>>

\* line 14
Figure ==
    /\ pc = "figure"
    /\ figures' = figures + 1
    /\ pc' = "rcParams"
    /\ UNCHANGED <<file, dataframe, stdout, rcParams, plotData, chart,
                   labels, shown, savedFiles, error, errorAt, calls>>

\* lines 15-16
SetRcParams ==
    /\ pc = "rcParams"
    /\ rcParams' = [k \in {"figure.dpi", "savefig.dpi"} |->
                       IF k = "figure.dpi" THEN FigureDpi ELSE SavefigDpi]
    /\ pc' = "plot"
    /\ UNCHANGED <<file, dataframe, stdout, figures, plotData, chart,
                   labels, shown, savedFiles, error, errorAt, calls>>

\* the filter assigned back to the name dataframe
Barplot_inPlace ==
    /\ pc = "plot"
    /\ LET f == FilterFrame(dataframe)
       IN IF f.err # "none"
          THEN /\ Raise(f.err, "barplot")
               /\ UNCHANGED <<dataframe, plotData, chart, calls>>
          ELSE LET b == barplot(CategoryColumn, ValueColumn, f.frame)
               IN /\ dataframe' = f.frame
                  /\ plotData' = f.frame
                  /\ calls' = [calls EXCEPT !.plot = @ + 1]
                  /\ IF b.err # "none"
                     THEN /\ Raise(b.err, "barplot")
                          /\ UNCHANGED chart
                     ELSE /\ chart' = b.chart
                          /\ pc' = "set_title"
                          /\ UNCHANGED <<error, errorAt>>
    /\ UNCHANGED <<file, stdout, figures, rcParams, labels, shown, savedFiles>>

\* line 18: the argument dataframe[...] is evaluated first, then sns.barplot
\* is called with it
Barplot ==
    /\ pc = "plot"
    /\ LET f == FilterFrame(dataframe)
       IN IF f.err # "none"
          THEN /\ Raise(f.err, "barplot")
               /\ UNCHANGED <<plotData, chart, calls>>
          ELSE LET b == barplot(CategoryColumn, ValueColumn, f.frame)
               IN /\ plotData' = f.frame
                  /\ calls' = [calls EXCEPT !.plot = @ + 1]
                  /\ IF b.err # "none"
                     THEN /\ Raise(b.err, "barplot")
                          /\ UNCHANGED chart
                     ELSE /\ chart' = b.chart
                          /\ pc' = "set_title"
                          /\ UNCHANGED <<error, errorAt>>
    /\ UNCHANGED <<file, dataframe, stdout, figures, rcParams, labels,
                   shown, savedFiles>>

\* lines 23-24
SetTitle ==
    /\ pc = "set_title"
    /\ labels' = [labels EXCEPT !.title = TitleText]
    /\ pc' = "set_xlabel"
    /\ UNCHANGED <<file, dataframe, stdout, figures, rcParams, plotData,
                   chart, shown, savedFiles, error, errorAt, calls>>

\* line 25
SetXlabel ==
    /\ pc = "set_xlabel"
    /\ labels' = [labels EXCEPT !.xlabel = XLabelText]
    /\ pc' = "set_ylabel"
    /\ UNCHANGED <<file, dataframe, stdout, figures, rcParams, plotData,
                   chart, shown, savedFiles, error, errorAt, calls>>

\* line 26
SetYlabel ==
    /\ pc = "set_ylabel"
    /\ labels' = [labels EXCEPT !.ylabel = YLabelText]
    /\ pc' = "show"
    /\ UNCHANGED <<file, dataframe, stdout, figures, rcParams, plotData,
                   chart, shown, savedFiles, error, errorAt, calls>>

\* the display call left in a loop
Show_again ==
    /\ pc = "show"
    /\ shown < 3
    /\ shown' = shown + 1
    /\ calls' = [calls EXCEPT !.show = @ + 1]
    /\ pc' = "show"
    /\ UNCHANGED <<file, dataframe, stdout, figures, rcParams, plotData,
                   chart, labels, savedFiles, error, errorAt>>

\* plt.savefig called before the display
Show_saving ==
    /\ pc = "show"
    /\ shown' = shown + 1
    /\ calls' = [calls EXCEPT !.show = @ + 1]
    /\ savedFiles' = savedFiles \cup {"figure.png"}
    /\ pc' = "done"
    /\ UNCHANGED <<file, dataframe, stdout, figures, rcParams, plotData,
                   chart, labels, error, errorAt>>

\* line 28: plt.show() displays the figure and returns when the window is
\* closed; the module body ends there
Show ==
    /\ pc = "show"
    /\ shown' = shown + 1
    /\ calls' = [calls EXCEPT !.show = @ + 1]
    /\ pc' = "done"
    /\ UNCHANGED <<file, dataframe, stdout, figures, rcParams, plotData,
                   chart, labels, savedFiles, error, errorAt>>

Next ==
    \/ ReadCsv
    \/ PrintDataframe
    \/ Figure
    \/ SetRcParams
    \/ Barplot
    \/ SetTitle
    \/ SetXlabel
    \/ SetYlabel
    \/ Show

Spec == Init /\ [][Next]_vars

----------------------------------------------------------------------------
\* The box-plot variant of the script: the plotting statement is
\*   sns.boxplot(x="probability", y="result", data=<filtered>, showfliers=False)
\* followed by sns.stripplot on the same data.  Box quantities are kept times
\* four, so that the quartiles of integer data are integers.

MaxBoxLines == 3

BoxValueColumn == "result"

BoxLines == {<<p, v>> : p \in {"-0.1", "0.1", "0.2"}, v \in {"1", "3", "100"}}

ExampleLines ==
    << <<"0.1", "1">>, <<"0.1", "2">>, <<"0.1", "3">>,
       <<"0.1", "4">>, <<"0.1", "5">>, <<"0.1", "100">> >>

BoxFiles ==
    { [path |-> data_filepath, exists |-> TRUE,
       header |-> <<"probability", "result">>, lines |-> ls] :
        ls \in SeqsUpTo(BoxLines, MaxBoxLines)
               \cup {ExampleLines, Append(ExampleLines, <<"-0.1", "100">>)} }

RECURSIVE Insert(_, _)
Insert(v, s) ==
    IF s = <<>> THEN <<v>>
    ELSE IF v <= Head(s) THEN <<v>> \o s
    ELSE <<Head(s)>> \o Insert(v, Tail(s))

RECURSIVE Sorted(_)
Sorted(s) == IF s = <<>> THEN <<>> ELSE Insert(Head(s), Sorted(Tail(s)))

\* four times the (25*k)-th percentile of the sorted sequence s, by linear
\* interpolation between the two nearest order statistics
Percentile4(s, k) ==
    LET h == (Len(s) - 1) * k
        i == h \div 4
        r == h % 4
    IN IF r = 0 THEN 4 * s[i + 1]
       ELSE (4 - r) * s[i + 1] + r * s[i + 2]

SetMax(S) == CHOOSE m \in S : \A x \in S : x <= m

SetMin(S) == CHOOSE m \in S : \A x \in S : m <= x

\* whiskers drawn to the extremes
WhiskerHigh4_toMax(values, q1, q3) == 4 * SetMax(Range(values))

\* the whiskers: the farthest observations within 1.5 IQR of the box

WhiskerHigh4(values, q1, q3) ==
    LET inside == {v \in Range(values) : 8 * v <= 2 * q3 + 3 * (q3 - q1)}
    IN IF inside = {} \/ 4 * SetMax(inside) < q3 THEN q3
       ELSE 4 * SetMax(inside)

WhiskerLow4(values, q1, q3) ==
    LET inside == {v \in Range(values) : 8 * v >= 2 * q1 - 3 * (q3 - q1)}
    IN IF inside = {} \/ 4 * SetMin(inside) > q1 THEN q1
       ELSE 4 * SetMin(inside)

BoxStats(values) ==
    LET s == Sorted(values)
        q1 == Percentile4(s, 1)
        q3 == Percentile4(s, 3)
    IN [q1 |-> q1, med |-> Percentile4(s, 2), q3 |-> q3,
        whislo |-> WhiskerLow4(values, q1, q3),
        whishi |-> WhiskerHigh4(values, q1, q3),
        fliersShown |-> FALSE]

boxplot(x, y, data) ==
    IF ~HasColumn(data, x) \/ ~HasColumn(data, y)
    THEN [err |-> "ValueError", chart |-> NoChart]
    ELSE [err |-> "none",
          chart |-> [drawn |-> TRUE, kind |-> "box", bars |-> <<>>,
                     boxes |-> [g \in Categories(data, x) |->
                                   BoxStats(GroupValues(data, x, y, g))],
                     dots |-> 0]]

InitBox ==
    /\ pc = "read_csv"
    /\ file \in BoxFiles
    /\ dataframe = NoFrame
    /\ stdout = <<>>
    /\ figures = 0
    /\ rcParams = <<>>
    /\ plotData = NoFrame
    /\ chart = NoChart
    /\ labels = NoLabels
    /\ shown = 0
    /\ savedFiles = {}
    /\ error = "none"
    /\ errorAt = "none"
    /\ calls = NoCalls

Boxplot ==
    /\ pc = "plot"
    /\ LET f == FilterFrame(dataframe)
       IN IF f.err # "none"
          THEN /\ Raise(f.err, "boxplot")
               /\ UNCHANGED <<plotData, chart, calls>>
          ELSE LET b == boxplot(CategoryColumn, BoxValueColumn, f.frame)
               IN /\ plotData' = f.frame
                  /\ calls' = [calls EXCEPT !.plot = @ + 1]
                  /\ IF b.err # "none"
                     THEN /\ Raise(b.err, "boxplot")
                          /\ UNCHANGED chart
                     ELSE /\ chart' = b.chart
                          /\ pc' = "stripplot"
                          /\ UNCHANGED <<error, errorAt>>
    /\ UNCHANGED <<file, dataframe, stdout, figures, rcParams, labels,
                   shown, savedFiles>>

\* one dot per row of the data it is given
Stripplot ==
    /\ pc = "stripplot"
    /\ LET f == FilterFrame(dataframe)
       IN /\ f.err = "none"
          /\ chart' = [chart EXCEPT !.dots = @ + Len(f.frame.rows)]
    /\ pc' = "set_title"
    /\ UNCHANGED <<file, dataframe, stdout, figures, rcParams, plotData,
                   labels, shown, savedFiles, error, errorAt, calls>>

NextBox ==
    \/ ReadCsv
    \/ PrintDataframe
    \/ Figure
    \/ SetRcParams
    \/ Boxplot
    \/ Stripplot
    \/ SetTitle
    \/ SetXlabel
    \/ SetYlabel
    \/ Show

SpecBox == InitBox /\ [][NextBox]_vars

----------------------------------------------------------------------------
\* Properties.  The quantities below are computed from the loaded table by
\* counting over row indices, independently of the operators above.

CatIdx == CHOOSE j \in 1..Len(dataframe.columns) :
              dataframe.columns[j] = "probability"

ValIdx(c) == CHOOSE j \in 1..Len(dataframe.columns) : dataframe.columns[j] = c

ProbAt(i) == dataframe.rows[i][CatIdx].n

Occurrences(r, rows) == Cardinality({i \in 1..Len(rows) : rows[i] = r})

KeptIdx == {i \in 1..Len(dataframe.rows) : ProbAt(i) >= 0}

GroupIdx(g) == {i \in KeptIdx : ProbAt(i) = g}

RECURSIVE SumOver(_, _)
SumOver(S, j) ==
    IF S = {} THEN 0
    ELSE LET i == CHOOSE k \in S : TRUE
         IN dataframe.rows[i][j].n + SumOver(S \ {i}, j)

Loaded == pc # "read_csv" /\ errorAt # "read_csv"

PlotStepOver ==
    Loaded /\ pc \notin {"print", "figure", "rcParams", "plot"}

\* C1: the rows handed to the chart are exactly the loaded rows with
\* probability >= 0 (each as often as it was loaded), and no bar is built
\* from a row with probability < 0.
C1_FilterExact ==
    calls.plot > 0 =>
        /\ \A i \in 1..Len(plotData.rows) : plotData.rows[i][CatIdx].n >= 0
        /\ Range(plotData.rows) \subseteq Range(dataframe.rows)
        /\ \A i \in KeptIdx :
              Occurrences(dataframe.rows[i], plotData.rows)
                  = Occurrences(dataframe.rows[i], dataframe.rows)
        /\ chart.drawn =>
              \A g \in DOMAIN chart.bars :
                  g >= 0 /\ chart.bars[g].den = Cardinality(GroupIdx(g))

C1_Witness ==
    /\ chart.drawn
    /\ \E i \in 1..Len(dataframe.rows) : ProbAt(i) < 0
    /\ \E i \in 1..Len(dataframe.rows) : ProbAt(i) = 0
    /\ \E i \in 1..Len(dataframe.rows) : ProbAt(i) > 0

ScenarioLines == << <<"0.1", "5">>, <<"0.1", "7">>, <<"0.2", "3">> >>

\* C2: the bar chart has one bar per distinct probability among the filtered
\* rows, and each bar's height is the arithmetic mean of the value column
\* over the filtered rows of that group; rows (0.1,5), (0.1,7), (0.2,3) give
\* 6 for group 0.1 and 3 for group 0.2.
C2_BarMeans ==
    (chart.drawn /\ chart.kind = "bar") =>
        /\ DOMAIN chart.bars = {ProbAt(i) : i \in KeptIdx}
        /\ \A g \in DOMAIN chart.bars :
              LET b == chart.bars[g]
              IN /\ b.den > 0
                 /\ b.num * Cardinality(GroupIdx(g))
                       = b.den * SumOver(GroupIdx(g), ValIdx("difference"))
        /\ file.lines = ScenarioLines =>
              /\ chart.bars[1].num = 60 * chart.bars[1].den
              /\ chart.bars[2].num = 30 * chart.bars[2].den

C2_Witness ==
    /\ chart.drawn
    /\ chart.kind = "bar"
    /\ file.lines = ScenarioLines
    /\ DOMAIN chart.bars = {1, 2}

MissingColumn ==
    ~HasColumn(dataframe, "probability") \/ ~HasColumn(dataframe, "difference")

\* C3 as stated: with the category or the value column absent, rendering ends
\* in a KeyError and no chart is produced or displayed.
C3_KeyErrorOnMissingColumn ==
    (PlotStepOver /\ MissingColumn) =>
        /\ error = "KeyError"
        /\ ~chart.drawn
        /\ shown = 0

\* C3 amended: with the category or the value column absent, rendering ends
\* in an error and no chart is produced or displayed; the error is a KeyError
\* when the category column is absent, and otherwise the plotting call's
\* ValueError (or the TypeError of comparing a text probability column).
C3_ErrorOnMissingColumn ==
    (PlotStepOver /\ MissingColumn) =>
        /\ pc = "failed"
        /\ errorAt = "barplot"
        /\ ~chart.drawn
        /\ shown = 0
        /\ labels = NoLabels
        /\ ~HasColumn(dataframe, "probability") => error = "KeyError"
        /\ HasColumn(dataframe, "probability") =>
              error = (IF \A i \in 1..Len(dataframe.rows) :
                             dataframe.rows[i][CatIdx].num
                       THEN "ValueError" ELSE "TypeError")

C3_Witness ==
    /\ PlotStepOver
    /\ HasColumn(dataframe, "probability")
    /\ ~HasColumn(dataframe, "difference")
    /\ Len(dataframe.rows) > 0
    /\ error = "ValueError"

ValidFile ==
    /\ file.exists
    /\ \A i \in 1..Len(file.lines) : Len(file.lines[i]) = Len(file.header)

\* C4: for a validly delimited file with a header row the Loader returns a
\* table whose column names are the header's, with one row per data line, in
\* file order.
C4_LoaderFaithful ==
    (ValidFile /\ pc # "read_csv") =>
        /\ errorAt # "read_csv"
        /\ dataframe.columns = file.header
        /\ Len(dataframe.rows) = Len(file.lines)
        /\ \A i \in 1..Len(file.lines) : \A j \in 1..Len(file.header) :
              LET c == dataframe.rows[i][j]
                  t == file.lines[i][j]
              IN IF c.num THEN IsNumeric(t) /\ c.n = ToNum(t) ELSE c.s = t

C4_Witness ==
    /\ Loaded
    /\ Len(file.lines) = 3
    /\ file.lines[1] # file.lines[2]
    /\ file.lines[2] # file.lines[3]
    /\ Len(dataframe.rows) = 3

FailFast ==
    /\ error # "none" => pc = "failed" /\ errorAt \in {"read_csv", "barplot"}
    /\ pc = "failed" => error # "none"
    /\ (pc # "read_csv" /\ ~file.exists) =>
          error = "FileNotFoundError" /\ errorAt = "read_csv"
    /\ (pc # "read_csv" /\ file.exists /\ ~ValidFile) =>
          error = "ParserError" /\ errorAt = "read_csv"
    /\ errorAt = "read_csv" =>
          /\ calls = [NoCalls EXCEPT !.read_csv = 1]
          /\ stdout = <<>>
          /\ figures = 0
          /\ ~chart.drawn
          /\ shown = 0
    /\ errorAt = "barplot" =>
          /\ calls.read_csv = 1
          /\ calls.plot <= 1
          /\ calls.show = 0
          /\ ~chart.drawn
          /\ labels = NoLabels
          /\ shown = 0

AllLabelsSet ==
    /\ labels.title = TitleText
    /\ labels.xlabel = XLabelText
    /\ labels.ylabel = YLabelText

Linear ==
    /\ calls.read_csv <= 1 /\ calls.plot <= 1 /\ calls.show <= 1
    /\ shown = calls.show
    /\ pc # "read_csv" => calls.read_csv = 1
    /\ calls.plot = 1 =>
          /\ Loaded
          /\ plotData.columns = dataframe.columns
          /\ Range(plotData.rows) \subseteq Range(dataframe.rows)
    /\ chart.drawn => calls.plot = 1
    /\ labels # NoLabels => chart.drawn
    /\ shown = 1 => chart.drawn /\ AllLabelsSet /\ pc = "done"
    /\ pc = "done" =>
          calls = [read_csv |-> 1, plot |-> 1, show |-> 1] /\ error = "none"

\* C7: control flow is linear: the Loader runs once, then the Renderer once
\* on the Loader's output, then the chart is displayed once, as the last
\* step and after the title and the axis labels were set; nothing runs
\* after the display call has returned.
C7_LinearFlow == []Linear /\ [][pc # "done"]_vars

C7_Witness ==
    /\ pc = "done"
    /\ shown = 1
    /\ Len(plotData.rows) > 0

\* C8: once loaded, the table is never changed: printing, filtering and
\* rendering leave its columns, rows and row order as they were.
C8_TableNeverMutated == [][pc # "read_csv" => dataframe' = dataframe]_vars

C8_Witness ==
    /\ pc = "done"
    /\ Len(plotData.rows) < Len(dataframe.rows)
    /\ Len(plotData.rows) > 0

\* C9: no file is written on any path, although savefig.dpi is configured;
\* the outputs are the one print of the loaded table and the displayed chart.
C9_NoFileWritten ==
    /\ savedFiles = {}
    /\ Len(stdout) <= 1
    /\ stdout # <<>> => stdout[1] = dataframe

C9_Witness ==
    /\ pc = "done"
    /\ shown = 1
    /\ "savefig.dpi" \in DOMAIN rcParams
    /\ rcParams["savefig.dpi"] = SavefigDpi
    /\ savedFiles = {}

ResultAt(i) == dataframe.rows[i][ValIdx("result")].n

\* the k-th smallest result among the rows S, found by counting
OrderStat(S, k) ==
    CHOOSE v \in {ResultAt(i) : i \in S} :
        /\ Cardinality({i \in S : ResultAt(i) < v}) < k
        /\ k <= Cardinality({i \in S : ResultAt(i) <= v})

Quartile4(S, k) ==
    LET h == (Cardinality(S) - 1) * k
        lo == OrderStat(S, (h \div 4) + 1)
    IN IF h % 4 = 0 THEN 4 * lo
       ELSE (4 - (h % 4)) * lo + (h % 4) * OrderStat(S, (h \div 4) + 2)

\* C10: in the box-plot variant each group's box shows the quartiles
\* (25th, 50th, 75th percentile) of the filtered rows of the group, outliers
\* are hidden and the whiskers stop at the last observation within 1.5 IQR
\* of the box, so that for [1,2,3,4,5,100] the whisker does not reach 100;
\* one dot per observation is overlaid.
C10_BoxSummary ==
    (chart.drawn /\ chart.kind = "box") =>
        /\ DOMAIN chart.boxes = {ProbAt(i) : i \in KeptIdx}
        /\ \A g \in DOMAIN chart.boxes :
              LET b == chart.boxes[g]
                  S == GroupIdx(g)
                  n == Cardinality(S)
                  hi == 2 * b.q3 + 3 * (b.q3 - b.q1)
                  lo == 2 * b.q1 - 3 * (b.q3 - b.q1)
              IN /\ b.q1 = Quartile4(S, 1)
                 /\ b.med = Quartile4(S, 2)
                 /\ b.q3 = Quartile4(S, 3)
                 /\ 2 * Cardinality({i \in S : 4 * ResultAt(i) < b.med}) <= n
                 /\ 2 * Cardinality({i \in S : 4 * ResultAt(i) > b.med}) <= n
                 /\ ~b.fliersShown
                 /\ b.q3 <= b.whishi /\ 2 * b.whishi <= hi
                 /\ b.whislo <= b.q1 /\ 2 * b.whislo >= lo
                 /\ \A i \in S :
                       /\ 8 * ResultAt(i) <= hi => 4 * ResultAt(i) <= b.whishi
                       /\ 8 * ResultAt(i) >= lo => 4 * ResultAt(i) >= b.whislo
        /\ (Len(file.lines) >= 6 /\ SubSeq(file.lines, 1, 6) = ExampleLines) =>
              /\ chart.boxes[1].q1 = 90
              /\ chart.boxes[1].med = 140
              /\ chart.boxes[1].q3 = 190
              /\ chart.boxes[1].whishi = 200
              /\ chart.boxes[1].whishi < 4 * 1000
        /\ pc \notin {"plot", "stripplot"} =>
              chart.dots = Cardinality(KeptIdx)

C10_Witness ==
    /\ pc = "done"
    /\ chart.kind = "box"
    /\ file.lines = Append(ExampleLines, <<"-0.1", "100">>)
    /\ chart.boxes[1].whishi = 200
    /\ chart.dots = 6

====
